---- MODULE Spec2Model ----
(***************************************************************************)
(* Model of the asynchronous extraction pipeline (extraction.enqueue, the  *)
(* queue transport, the queue consumer with its job record store) and of   *)
(* the Clerk credential path (token bridge, tRPC headers callback,         *)
(* createContext).                                                         *)
(***************************************************************************)
EXTENDS Naturals, Sequences, FiniteSets

\* ------------------------------------------------------------------ bounds

\* concurrent extraction.enqueue calls
MaxReq == 2
\* longest request text
MaxTextLen == 1
\* size of the identifier space crypto.randomUUID draws from
NumUUIDs == 2
\* concurrent queue consumer invocations
MaxWorkers == 2
\* retry budget of a job
MaxRetries == 1
\* HTTP requests in flight between the client and the worker
MaxWire == 1

Req == 1..MaxReq
UUIDs == 1..NumUUIDs
Workers == 1..MaxWorkers

Chars == {"a", "b"}

RECURSIVE SeqsUpTo(_, _)
SeqsUpTo(S, n) ==
  IF n = 0 THEN {<<>>}
  ELSE LET shorter == SeqsUpTo(S, n - 1)
       IN shorter \cup {Append(s, c) : s \in shorter, c \in S}

\* request texts a caller can send, the empty string included
Texts == SeqsUpTo(Chars, MaxTextLen)

\* what a caller holds before the call has answered
NoResponse == [jobId |-> 0, status |-> "none"]

VARIABLES
  pc,          \* per call: position of the enqueue handler
  input,       \* per call: the request's text
  jobId,       \* per call: the handler's local const jobId
  response,    \* per call: what the caller received
  sendCalls,   \* per call: invocations of AI_EXTRACTION_QUEUE.send
  issued,      \* identifiers crypto.randomUUID has produced so far
  published,   \* every message body the transport accepted, in order
  queue,       \* transport: indices of published messages not yet acknowledged
  store,       \* job record store: jobId -> record
  worker,      \* per consumer invocation: position and held message
  extractRuns, \* per jobId: how often the extraction ran
  terminals,   \* per jobId: terminal transitions that took effect
  lastCas,     \* the last transition attempt and its outcome
  getToken,    \* src/lib/clerk-token.ts: the module-level getter slot
  session,     \* Clerk: the signed-in session's JWT, or none
  wire,        \* HTTP requests sent and not yet handled by the worker
  clerk,       \* whether the Clerk setup has been applied
  secretKey,   \* env.CLERK_SECRET_KEY of the deployment
  lastCtx      \* the result of the worker's last createContext

pipeVars == <<pc, input, jobId, response, sendCalls, issued, published, queue,
              store, worker, extractRuns, terminals, lastCas>>
authVars == <<clerk, getToken, session, wire, secretKey, lastCtx>>
vars == <<pc, input, jobId, response, sendCalls, issued, published, queue,
          store, worker, extractRuns, terminals, lastCas,
          clerk, getToken, session, wire, secretKey, lastCtx>>

\* ------------------------------------------------- extraction.enqueue

\* faulty variant: the validator without .min(1)
ValidInputAnyString(in) == Len(in) >= 0

\* z.object({ text: z.string().min(1) })
ValidInput(in) == Len(in) >= 1

\* faulty variant: the identifier drawn once, outside the handler
RandomUUIDHoisted == {1}

\* crypto.randomUUID(): an identifier not produced before
RandomUUID == UUIDs \ issued

\* faulty variant: the message carries an identifier of its own
MessageOwnId(text, id) ==
  [text |-> text, jobId |-> CHOOSE u \in UUIDs : u # id]

\* the message body handed to send()
Message(text, id) == [text |-> text, jobId |-> id]

\* faulty variant: the returned status read back from the job record
EnqueueResultLive(r) ==
  [jobId |-> jobId[r],
   status |-> IF store[jobId[r]].status = "absent"
                THEN "queued" ELSE store[jobId[r]].status]

\* the value the mutation returns
EnqueueResult(r) == [jobId |-> jobId[r], status |-> "queued"]

\* faulty variant: send() invoked a second time
SendsTwice == 1 + 1

\* how many times the handler invokes send() for one accepted request
SendsPerRequest == 1

\* A caller invokes extraction.enqueue: the input validator runs, and for an
\* accepted input the handler draws jobId and calls send(), then awaits it.
\* Calls are numbered in order of arrival.
Enqueue(r, in) ==
  /\ pc[r] = "idle"
  /\ \A r2 \in Req : r2 < r => pc[r2] # "idle"
  /\ input' = [input EXCEPT ![r] = in]
  /\ IF ~ValidInput(in)
       THEN /\ pc' = [pc EXCEPT ![r] = "bad_request"]
            /\ UNCHANGED <<jobId, issued, sendCalls>>
       ELSE \E id \in RandomUUID :
            /\ jobId' = [jobId EXCEPT ![r] = id]
            /\ issued' = issued \cup {id}
            /\ sendCalls' = [sendCalls EXCEPT ![r] = @ + SendsPerRequest]
            /\ pc' = [pc EXCEPT ![r] = "sending"]
  /\ UNCHANGED <<response, published, queue, store, worker, extractRuns,
                 terminals, lastCas>>
  /\ UNCHANGED authVars

\* The transport accepts the message: it is stored and the send() promise
\* resolves.
SendResolve(r) ==
  /\ pc[r] = "sending"
  /\ published' = Append(published, Message(input[r], jobId[r]))
  /\ queue' = queue \cup {Len(published) + 1}
  /\ pc' = [pc EXCEPT ![r] = "resolved"]
  /\ UNCHANGED <<input, jobId, response, sendCalls, issued, store, worker,
                 extractRuns, terminals, lastCas>>
  /\ UNCHANGED authVars

\* faulty variant: the rejection swallowed, the handler returns as if published
SendRejectSwallowed(r) ==
  /\ pc[r] = "sending"
  /\ pc' = [pc EXCEPT ![r] = "returned"]
  /\ response' = [response EXCEPT ![r] = [jobId |-> jobId[r], status |-> "queued"]]
  /\ UNCHANGED <<input, jobId, sendCalls, issued, published, queue,
                 store, worker, extractRuns, terminals, lastCas>>
  /\ UNCHANGED <<clerk, getToken, session, wire, secretKey, lastCtx>>

\* The transport is unavailable: the send() promise rejects and the awaiting
\* handler throws; the caller receives an error.
SendReject(r) ==
  /\ pc[r] = "sending"
  /\ pc' = [pc EXCEPT ![r] = "error"]
  /\ UNCHANGED <<input, jobId, response, sendCalls, issued, published, queue,
                 store, worker, extractRuns, terminals, lastCas>>
  /\ UNCHANGED authVars

\* The handler resumes after the await and returns.
Return(r) ==
  /\ pc[r] = "resolved"
  /\ response' = [response EXCEPT ![r] = EnqueueResult(r)]
  /\ pc' = [pc EXCEPT ![r] = "returned"]
  /\ UNCHANGED <<input, jobId, sendCalls, issued, published, queue, store,
                 worker, extractRuns, terminals, lastCas>>
  /\ UNCHANGED authVars

\* ------------------------------------------------------ job record store

Statuses == {"queued", "processing", "succeeded", "failed"}
Terminal == {"succeeded", "failed"}

\* get(id) of an identifier the store does not hold
NoJob == [status |-> "absent", payload |-> <<>>, result |-> <<>>,
          error |-> "none", retries |-> 0]

\* a Job in its initial state
NewJob(payload) == [status |-> "queued", payload |-> payload, result |-> <<>>,
                    error |-> "none", retries |-> 0]

\* rec with the given fields overwritten
Merge(rec, fields) ==
  [k \in DOMAIN rec |-> IF k \in DOMAIN fields THEN fields[k] ELSE rec[k]]

\* create(id, payload): fails if id already exists
Create(st, id, payload) ==
  IF st[id].status # "absent"
    THEN [ok |-> FALSE, store |-> st]
    ELSE [ok |-> TRUE, store |-> [st EXCEPT ![id] = NewJob(payload)]]

\* faulty variant: the write without the comparison
TransitionBlind(st, id, from, to, fields) ==
  [ok |-> TRUE,
   store |-> [st EXCEPT ![id] = Merge([@ EXCEPT !.status = to], fields)]]

\* transition(id, from_status_set, to_status, fields): compare-and-swap on
\* the job's status
Transition(st, id, from, to, fields) ==
  IF st[id].status \in from
    THEN [ok |-> TRUE,
          store |-> [st EXCEPT ![id] = Merge([@ EXCEPT !.status = to], fields)]]
    ELSE [ok |-> FALSE, store |-> st]

\* the record of one transition attempt
CasRecord(st, id, from, to, res) ==
  [attempted |-> TRUE, id |-> id, from |-> from, to |-> to,
   before |-> st[id].status, changed |-> res.store # st, ok |-> res.ok]

NoCas == [attempted |-> FALSE, id |-> 0, from |-> {}, to |-> "none",
          before |-> "none", changed |-> FALSE, ok |-> FALSE]

\* --------------------------------------------------------- queue consumer

IdleWorker == [pc |-> "idle", msg |-> 0, seen |-> "none"]

\* the extraction operation (a placeholder in this repository)
Extract(text) == <<text>>

\* faulty variant: a finished job claimed again
ClaimFromAnyDone == {"queued", "succeeded"}

\* the statuses a delivery may claim a job from
ClaimFrom == {"queued"}

\* The transport invokes the consumer with a pending message, which stays
\* pending until acknowledged and so can be handed out again. The consumer
\* looks the job up (recording it on first sight) and claims it:
\* queued -> processing. A conflict means a duplicate delivery: a no-op.
\* The invocation takes the first free slot.
Deliver(w, m) ==
  /\ worker[w].pc = "idle"
  /\ \A w2 \in Workers : w2 < w => worker[w2].pc # "idle"
  /\ m \in queue
  /\ LET body == published[m]
         st0 == Create(store, body.jobId, body.text).store
         res == Transition(st0, body.jobId, ClaimFrom, "processing", <<>>)
     IN /\ store' = res.store
        /\ lastCas' = CasRecord(st0, body.jobId, ClaimFrom, "processing", res)
        /\ worker' = [worker EXCEPT ![w] =
                        [pc |-> IF res.ok THEN "extracting" ELSE "acking",
                         msg |-> m,
                         seen |-> store[body.jobId].status]]
  /\ UNCHANGED <<pc, input, jobId, response, sendCalls, issued, published,
                 queue, extractRuns, terminals>>
  /\ UNCHANGED authVars

\* The extraction succeeds: processing -> succeeded with the result.
ExtractOk(w) ==
  /\ worker[w].pc = "extracting"
  /\ LET body == published[worker[w].msg]
         res == Transition(store, body.jobId, {"processing"}, "succeeded",
                           [result |-> Extract(body.text)])
     IN /\ extractRuns' = [extractRuns EXCEPT ![body.jobId] = @ + 1]
        /\ store' = res.store
        /\ lastCas' = CasRecord(store, body.jobId, {"processing"}, "succeeded", res)
        /\ terminals' = [terminals EXCEPT ![body.jobId] =
                           IF res.ok THEN @ + 1 ELSE @]
        /\ worker' = [worker EXCEPT ![w].pc = "acking"]
  /\ UNCHANGED <<pc, input, jobId, response, sendCalls, issued, published,
                 queue>>
  /\ UNCHANGED authVars

\* The extraction fails transiently with retry budget left: the job goes back
\* to queued with its retry counter incremented and the message is requeued.
ExtractRetry(w) ==
  /\ worker[w].pc = "extracting"
  /\ LET body == published[worker[w].msg]
         res == Transition(store, body.jobId, {"processing"}, "queued",
                           [retries |-> store[body.jobId].retries + 1])
     IN /\ store[body.jobId].retries < MaxRetries
        /\ extractRuns' = [extractRuns EXCEPT ![body.jobId] = @ + 1]
        /\ store' = res.store
        /\ lastCas' = CasRecord(store, body.jobId, {"processing"}, "queued", res)
        /\ queue' = queue \cup {worker[w].msg}
        /\ worker' = [worker EXCEPT ![w] = IdleWorker]
  /\ UNCHANGED <<pc, input, jobId, response, sendCalls, issued, published,
                 terminals>>
  /\ UNCHANGED authVars

\* The extraction fails permanently, or transiently with the budget spent:
\* processing -> failed with the cause.
ExtractFail(w, cause) ==
  /\ worker[w].pc = "extracting"
  /\ cause = "transient" => store[published[worker[w].msg].jobId].retries >= MaxRetries
  /\ LET body == published[worker[w].msg]
         res == Transition(store, body.jobId, {"processing"}, "failed",
                           [error |-> cause])
     IN /\ extractRuns' = [extractRuns EXCEPT ![body.jobId] = @ + 1]
        /\ store' = res.store
        /\ lastCas' = CasRecord(store, body.jobId, {"processing"}, "failed", res)
        /\ terminals' = [terminals EXCEPT ![body.jobId] =
                           IF res.ok THEN @ + 1 ELSE @]
        /\ worker' = [worker EXCEPT ![w].pc = "acking"]
  /\ UNCHANGED <<pc, input, jobId, response, sendCalls, issued, published,
                 queue>>
  /\ UNCHANGED authVars

\* The consumer acknowledges the message: the transport drops it.
Ack(w) ==
  /\ worker[w].pc = "acking"
  /\ queue' = queue \ {worker[w].msg}
  /\ worker' = [worker EXCEPT ![w] = IdleWorker]
  /\ UNCHANGED <<pc, input, jobId, response, sendCalls, issued, published,
                 store, extractRuns, terminals, lastCas>>
  /\ UNCHANGED authVars

\* ------------------------------------------------------- credential path

\* a nullable string: <<>> is null (or an absent header), <<s>> the string s
None == <<>>
Some(s) == <<s>>

\* JavaScript truthiness of a nullable string
Truthy(o) == o # None /\ Len(o[1]) > 0

\* "Bearer "
BearerPrefix == <<"B", "e", "a", "r", "e", "r", " ">>

\* String.prototype.startsWith
StartsWith(s, prefix) ==
  Len(s) >= Len(prefix) /\ SubSeq(s, 1, Len(prefix)) = prefix

\* String.prototype.slice(n)
Slice(s, n) == SubSeq(s, n + 1, Len(s))

\* session JWTs Clerk can hand out: "v" verifies, "x" is expired
Tokens == {<<"v">>, <<"x">>}
ValidTokens == {<<"v">>}

\* values of CLERK_SECRET_KEY: unset, empty, the instance's key, another key
InstanceKey == <<"s">>
SecretKeys == {None, Some(<<>>), Some(InstanceKey), Some(<<"w">>)}

\* Authorization headers an HTTP client can send
RawHeaders ==
  {None, Some(<<>>), Some(<<"B", "e", "a", "r", "e", "r">>),
   Some(BearerPrefix),
   Some(<<"B", "a", "s", "i", "c", " ", "v">>),
   Some(<<"b", "e", "a", "r", "e", "r", " ", "v">>)}
  \cup {Some(BearerPrefix \o t) : t \in Tokens}

\* useAuth().getToken: the session's JWT, null when signed out
ClerkGetToken == session

\* getClerkToken(): getToken ? getToken() : null
GetClerkToken == IF getToken # "null" THEN ClerkGetToken ELSE None

\* the httpBatchLink headers callback of the Clerk setup
ClerkHeaders ==
  LET token == GetClerkToken
  IN IF Truthy(token) THEN Some(BearerPrefix \o token[1]) ELSE None

\* the Authorization header of a request leaving the tRPC client: the link
\* as it stands passes no headers, the Clerk setup adds the callback
Headers == IF clerk THEN ClerkHeaders ELSE None

\* verifyToken(token, { secretKey }) of @clerk/backend: throws for a token
\* that does not verify under the key, or when the verification itself fails
VerifyToken(token, key, fault) ==
  IF fault \/ token \notin ValidTokens \/ key # InstanceKey
    THEN [throws |-> TRUE, data |-> None]
    ELSE [throws |-> FALSE, data |-> Some(<<"user", token>>)]

\* faulty variant: verifyToken outside try/catch
ClerkContextNoCatch(authHeader, key, fault) ==
  LET token == IF authHeader # None /\ StartsWith(authHeader[1], BearerPrefix)
                 THEN Some(Slice(authHeader[1], 7))
                 ELSE None
  IN IF Truthy(token) /\ Truthy(key)
       THEN LET v == VerifyToken(token[1], key[1], fault)
            IN IF v.throws
                 THEN [kind |-> "error", user |-> None]
                 ELSE [kind |-> "context", user |-> v.data]
       ELSE [kind |-> "context", user |-> None]

\* createContext of the Clerk setup, on a request's Authorization header
ClerkContext(authHeader, key, fault) ==
  LET token == IF authHeader # None /\ StartsWith(authHeader[1], BearerPrefix)
                 THEN Some(Slice(authHeader[1], 7))
                 ELSE None
  IN IF Truthy(token) /\ Truthy(key)
       THEN LET v == VerifyToken(token[1], key[1], fault)
            IN IF v.throws
                 THEN [kind |-> "context", user |-> None]
                 ELSE [kind |-> "context", user |-> v.data]
       ELSE [kind |-> "context", user |-> None]

\* createContext as it stands: no user at all
PlainContext == [kind |-> "context", user |-> None]

\* The Clerk setup is applied to the application.
ApplyClerkSetup ==
  /\ ~clerk
  /\ clerk' = TRUE
  /\ UNCHANGED <<getToken, session, wire, secretKey, lastCtx>>
  /\ UNCHANGED pipeVars

\* wrangler secret put CLERK_SECRET_KEY
PutSecret(k) ==
  /\ secretKey # k
  /\ secretKey' = k
  /\ UNCHANGED <<clerk, getToken, session, wire, lastCtx>>
  /\ UNCHANGED pipeVars

\* The user signs in: Clerk holds a session JWT.
SignIn(t) ==
  /\ clerk
  /\ session # Some(t)
  /\ session' = Some(t)
  /\ UNCHANGED <<clerk, getToken, wire, secretKey, lastCtx>>
  /\ UNCHANGED pipeVars

SignOut ==
  /\ session # None
  /\ session' = None
  /\ UNCHANGED <<clerk, getToken, wire, secretKey, lastCtx>>
  /\ UNCHANGED pipeVars

\* WrapComponent renders: setClerkGetToken(getToken)
SetClerkGetToken ==
  /\ clerk
  /\ getToken' = "clerk"
  /\ getToken # "clerk"
  /\ UNCHANGED <<clerk, session, wire, secretKey, lastCtx>>
  /\ UNCHANGED pipeVars

\* The tRPC client sends a request.
ClientRequest ==
  /\ Cardinality(wire) < MaxWire
  /\ wire' = wire \cup {[from |-> "trpc", auth |-> Headers, clerk |-> clerk,
                         registered |-> getToken # "null"]}
  /\ UNCHANGED <<clerk, getToken, session, secretKey, lastCtx>>
  /\ UNCHANGED pipeVars

\* Some other HTTP client sends a request to /trpc.
OtherRequest(h) ==
  /\ Cardinality(wire) < MaxWire
  /\ wire' = wire \cup {[from |-> "other", auth |-> h, clerk |-> clerk,
                         registered |-> FALSE]}
  /\ UNCHANGED <<clerk, getToken, session, secretKey, lastCtx>>
  /\ UNCHANGED pipeVars

\* The worker builds the context of a request.
CreateContext(q, fault) ==
  /\ q \in wire
  /\ wire' = wire \ {q}
  /\ lastCtx' = Some([req |-> q, key |-> secretKey, fault |-> fault,
                      clerk |-> clerk,
                      ctx |-> IF clerk
                                THEN ClerkContext(q.auth, secretKey, fault)
                                ELSE PlainContext])
  /\ UNCHANGED <<clerk, getToken, session, secretKey>>
  /\ UNCHANGED pipeVars

\* ------------------------------------------------------------------- init

Init ==
  /\ pc = [r \in Req |-> "idle"]
  /\ input = [r \in Req |-> <<>>]
  /\ jobId = [r \in Req |-> 0]
  /\ response = [r \in Req |-> NoResponse]
  /\ sendCalls = [r \in Req |-> 0]
  /\ issued = {}
  /\ published = <<>>
  /\ queue = {}
  /\ store = [id \in UUIDs |-> NoJob]
  /\ worker = [w \in Workers |-> IdleWorker]
  /\ extractRuns = [id \in UUIDs |-> 0]
  /\ terminals = [id \in UUIDs |-> 0]
  /\ lastCas = NoCas
  /\ clerk = FALSE
  /\ getToken = "null"
  /\ session = <<>>
  /\ wire = {}
  /\ secretKey = <<>>
  /\ lastCtx = <<>>

\* the submission endpoint and the transport's answers to it
NextEnqueue ==
  \/ \E r \in Req, in \in Texts : Enqueue(r, in)
  \/ \E r \in Req : SendResolve(r)
  \/ \E r \in Req : SendReject(r)
  \/ \E r \in Req : Return(r)

SpecEnqueue == Init /\ [][NextEnqueue]_vars

\* the whole pipeline: the endpoint, the transport and the consumer
Next ==
  \/ \E r \in Req, in \in Texts : Enqueue(r, in)
  \/ \E r \in Req : SendResolve(r)
  \/ \E r \in Req : SendReject(r)
  \/ \E r \in Req : Return(r)
  \/ \E w \in Workers, m \in queue : Deliver(w, m)
  \/ \E w \in Workers : ExtractOk(w)
  \/ \E w \in Workers : ExtractRetry(w)
  \/ \E w \in Workers, cause \in {"transient", "permanent"} : ExtractFail(w, cause)
  \/ \E w \in Workers : Ack(w)

Spec == Init /\ [][Next]_vars

NextAuth ==
  \/ ApplyClerkSetup
  \/ \E k \in SecretKeys : PutSecret(k)
  \/ \E t \in Tokens : SignIn(t)
  \/ SignOut
  \/ SetClerkGetToken
  \/ ClientRequest
  \/ \E h \in RawHeaders : OtherRequest(h)
  \/ \E q \in wire, fault \in BOOLEAN : CreateContext(q, fault)

SpecAuth == Init /\ [][NextAuth]_vars

\* ---------------------------------------------------------------- claims

Answered(r) == response[r] # NoResponse
Accepted(r) == pc[r] \in {"sending", "resolved", "returned", "error"}
PublishedWith(id) == {i \in 1..Len(published) : published[i].jobId = id}

RECURSIVE SumSendCalls(_)
SumSendCalls(n) == IF n = 0 THEN 0 ELSE sendCalls[n] + SumSendCalls(n - 1)

\* C1: a call of extraction.enqueue with the empty string as text fails
\* validation, and the call publishes nothing: send() is not invoked and the
\* messages held by the transport are the same before and after the call.
C1_EmptyTextNotPublished ==
  [][\A r \in Req :
       (pc[r] = "idle" /\ pc'[r] # "idle" /\ input'[r] = <<>>)
         => /\ pc'[r] = "bad_request"
            /\ sendCalls' = sendCalls
            /\ published' = published
            /\ queue' = queue
            /\ Cardinality(queue') = Cardinality(queue)]_vars

C1_Witness ==
  \E r \in Req : pc[r] = "bad_request" /\ input[r] = <<>> /\ queue # {}

\* C2 as stated: every completed call with a non-empty text has returned a
\* jobId with status "queued", and no two calls returned the same jobId.
C2_Original ==
  /\ \A r \in Req :
       (Len(input[r]) >= 1 /\ pc[r] \in {"returned", "error"})
         => (response[r].status = "queued" /\ response[r].jobId \in UUIDs)
  /\ \A r1, r2 \in Req :
       (r1 # r2 /\ Answered(r1) /\ Answered(r2))
         => response[r1].jobId # response[r2].jobId

\* C2 amended: every completed call with a non-empty text whose publish the
\* transport accepted has returned a jobId with status "queued"; a call whose
\* publish was rejected returned nothing; and no two calls returned the same
\* jobId.
C2_AcceptedReturnsUniqueJobId ==
  /\ \A r \in Req :
       (Len(input[r]) >= 1 /\ pc[r] \in {"returned", "error"}
          /\ PublishedWith(jobId[r]) # {})
         => (response[r].status = "queued" /\ response[r].jobId \in UUIDs)
  /\ \A r \in Req : pc[r] = "returned" => response[r].status = "queued"
  /\ \A r \in Req : pc[r] = "error" => ~Answered(r)
  /\ \A r1, r2 \in Req :
       (r1 # r2 /\ Answered(r1) /\ Answered(r2))
         => response[r1].jobId # response[r2].jobId

C2_Witness ==
  \E r1, r2 \in Req :
    r1 # r2 /\ pc[r1] = "returned" /\ pc[r2] = "returned"

\* C3: every request that passed validation has invoked send() exactly once,
\* a rejected request never; so the number of publish calls equals the number
\* of requests that passed validation, and the transport holds at most one
\* message per request.
C3_OnePublishPerAccepted ==
  /\ \A r \in Req : sendCalls[r] = IF Accepted(r) THEN 1 ELSE 0
  /\ SumSendCalls(MaxReq) = Cardinality({r \in Req : Accepted(r)})
  /\ Len(published) <= SumSendCalls(MaxReq)
  /\ \A r \in Req :
       Cardinality(PublishedWith(jobId[r])) =
         IF pc[r] \in {"resolved", "returned"} THEN 1 ELSE 0

C3_Witness ==
  /\ \E r \in Req : pc[r] = "returned"
  /\ \E r \in Req : pc[r] = "bad_request"

\* C4: a call whose publish failed has surfaced an error and returned
\* nothing: every jobId a caller holds is the jobId of a message the
\* transport accepted.
C4_PublishFailureSurfaced ==
  \A r \in Req :
    /\ pc[r] = "error" => ~Answered(r)
    /\ Answered(r) => PublishedWith(response[r].jobId) # {}

C4_Witness ==
  \E r \in Req : pc[r] = "error" /\ sendCalls[r] = 1 /\ ~Answered(r)

\* C5: once the publish has completed the call can return whatever the
\* consumer is doing, and the status it returns is "queued" whatever the
\* job's recorded status is.
C5_FireAndForget ==
  \A r \in Req :
    /\ pc[r] = "resolved" => ENABLED Return(r)
    /\ Answered(r) => response[r].status = "queued"

\* the call has returned while its message is still undelivered
C5_Witness ==
  \E r \in Req :
    /\ pc[r] = "returned"
    /\ store[response[r].jobId].status = "absent"
    /\ \E m \in queue : published[m].jobId = response[r].jobId

\* C6: once a job is succeeded, no step (a later delivery of its message
\* included) runs the extraction again or changes the job's record.
C6_RedeliveryAfterSuccessNoOp ==
  [][\A id \in UUIDs :
       store[id].status = "succeeded"
         => (store'[id] = store[id] /\ extractRuns'[id] = extractRuns[id])]_vars

\* a delivery made after the job had succeeded was handled
C6_Witness ==
  \E w \in Workers :
    /\ worker[w].pc = "acking"
    /\ worker[w].seen = "succeeded"
    /\ store[published[worker[w].msg].jobId].status = "succeeded"

\* C7: a transition attempted from a status outside its source set reports a
\* conflict and changes nothing; at most one terminal transition takes effect
\* per job, and a job in a terminal status has had exactly one.
C7_CompareAndSwap ==
  /\ (lastCas.attempted /\ lastCas.before \notin lastCas.from)
       => (~lastCas.ok /\ ~lastCas.changed)
  /\ (lastCas.attempted /\ lastCas.before \in lastCas.from) => lastCas.ok
  /\ \A id \in UUIDs :
       /\ terminals[id] <= 1
       /\ store[id].status \in Terminal <=> terminals[id] = 1

\* a second invocation's claim conflicted with a job that reached its
\* terminal status once
C7_Witness ==
  /\ lastCas.attempted
  /\ ~lastCas.ok
  /\ terminals[lastCas.id] = 1

\* C8 as stated: every request leaving the tRPC client of the Clerk setup
\* carries an Authorization header, also when no getter is registered yet.
C8_EveryRequestCarriesToken ==
  \A q \in wire :
    (q.from = "trpc" /\ q.clerk)
      => (q.auth # None /\ StartsWith(q.auth[1], BearerPrefix))

\* C9: createContext returns a context whatever the credential; its user is
\* null without a bearer token, without a secret key, and when verification
\* throws, and non-null only for a verified bearer token.
C9_ContextNeverFails ==
  lastCtx # None =>
    LET c == lastCtx[1]
        h == c.req.auth
        bearer == h # None /\ StartsWith(h[1], BearerPrefix) /\ Len(h[1]) > 7
        configured == c.key # None /\ c.key[1] # <<>>
        verified == /\ bearer /\ configured /\ ~c.fault
                    /\ Slice(h[1], 7) \in ValidTokens
                    /\ c.key[1] = InstanceKey
    IN /\ c.ctx.kind = "context"
       /\ c.ctx.user # None => (c.clerk /\ verified)
       /\ (c.clerk /\ verified) => c.ctx.user # None

\* a context was built for a bearer token whose verification threw
C9_Witness ==
  /\ lastCtx # None
  /\ lastCtx[1].clerk
  /\ lastCtx[1].fault
  /\ lastCtx[1].req.auth = Some(BearerPrefix \o <<"v">>)
  /\ lastCtx[1].key = Some(InstanceKey)
  /\ lastCtx[1].ctx.user = None

\* C10: the published message and the response carry the same jobId and the
\* message's text is the request's text: every jobId a caller holds is the
\* jobId of exactly one published message, with that caller's text.
C10_MessageMatchesResponse ==
  \A r \in Req :
    /\ pc[r] \in {"resolved", "returned"}
         => \E i \in 1..Len(published) : published[i] = [text |-> input[r], jobId |-> jobId[r]]
    /\ Answered(r)
         => /\ Cardinality(PublishedWith(response[r].jobId)) = 1
            /\ \A i \in PublishedWith(response[r].jobId) :
                 published[i].text = input[r]

C10_Witness ==
  \E r1, r2 \in Req :
    /\ r1 # r2
    /\ Answered(r1)
    /\ Answered(r2)
    /\ input[r1] # input[r2]

====
